---- MODULE Spec2Model ----
(***************************************************************************)
(* Model of src/src/lib.rs: the Python binding load_rhs_file and the       *)
(* sample converters it calls on the decoded contents of an Intan RHS      *)
(* file.                                                                   *)
(*                                                                         *)
(* Representation.                                                         *)
(*   Option<T>      None == <<>>, Some(x) == <<x>>                          *)
(*   Array2<T>      [shape |-> <<rows, cols>>, cells |-> rows x cols]        *)
(*   Array1<T>      a sequence                                             *)
(*   Vec<Vec<T>>    a sequence of sequences                                *)
(*   f32            the exact rational <<numerator, denominator>>; the      *)
(*                  binary rounding of the product is not modelled, the    *)
(*                  integer operand of every product is                    *)
(*   String         a TLA+ string, or a tuple of pieces for format!()      *)
(***************************************************************************)
EXTENDS Integers, Sequences, FiniteSets, TLC

VARIABLES pc, filename, rhs_file, result, err, load_calls, load_error, work_started

vars == <<pc, filename, rhs_file, result, err, load_calls, load_error, work_started>>

-----------------------------------------------------------------------------
(* Bounds of the model.                                                    *)

MaxAmp == 2
MaxAux == 1
MaxDig == 1
MaxSamples == 2
PureRows == 2
PureCols == 2
PureDig == 2

-----------------------------------------------------------------------------
(* Rust values.                                                            *)

None == <<>>

Some(x) == <<x>>

IsSome(o) == Len(o) = 1

Unwrap(o) == o[1]

Pow2(n) == 2 ^ n

Word16 == 0 .. 65535

(* a & b on non-negative integers, bit by bit *)
RECURSIVE BitAnd(_, _)
BitAnd(a, b) ==
    IF a = 0 \/ b = 0 THEN 0
    ELSE (IF a % 2 = 1 /\ b % 2 = 1 THEN 1 ELSE 0)
         + 2 * BitAnd(a \div 2, b \div 2)

(* 1 << n for a shift amount below the operand's width *)
Shl1(n) == Pow2(n)

(* `sample as i32` of a 16-bit code: value preserving.  Every i32 result   *)
(* below is the sum, difference or product of values of magnitude at most  *)
(* 65535 and 32768 or 255 and 1, so it never leaves the i32 range and the  *)
(* i32 operations are the integer ones.                                    *)
AsI32(sample) == sample

(* a - b in wrapping 16-bit unsigned arithmetic *)
WrappingSubU16(a, b) == (a - b) % 65536

(* `n as f32` of an integer of magnitude below 2^24: exact *)
IntAsF32(n) == <<n, 1>>

(* to_string() of a non-negative integer: its decimal digits *)
RECURSIVE IntToString(_)
IntToString(n) ==
    IF n < 10 THEN <<n>> ELSE Append(IntToString(n \div 10), n % 10)

(* to_string() of an f32: the decimal text of the value, kept symbolic *)
F32ToString(x) == <<"f32", x[1], x[2]>>

(* the f32 literal 0.0 of vec![0.0; n] *)
Zero == <<0, 1>>

(* scale * (n as f32) for the decimal literal scale = num / den *)
MulF32(num, den, n) == <<num * n, den>>

(* Array2 indexing: arr[[i, j]] *)
At(arr, i, j) == arr.cells[i][j]

-----------------------------------------------------------------------------
(* Sample Converter: stimulation command words.                            *)

StimDataConversionEmpty ==
    [stim_data |-> <<>>,
     compliance_limit_data |-> <<>>,
     charge_recovery_data |-> <<>>,
     amp_settle_data |-> <<>>]

(* the flag mask one bit too wide: 0x3000 for 0x2000 *)
StimFlagWide(sample, mask) == BitAnd(sample, mask + mask \div 2) # 0

StimFlag(sample, mask) == BitAnd(sample, mask) # 0

(* the polarity read one bit too high *)
StimPolarityBit9(sample) == IF BitAnd(sample, 512) # 0 THEN -1 ELSE 1

StimPolarity(sample) == IF BitAnd(sample, 256) # 0 THEN -1 ELSE 1

StimAmplitude(sample) ==
    LET polarity == StimPolarity(sample)
        current_amp == AsI32(BitAnd(sample, 255))
    IN  IntAsF32(current_amp * polarity)

convert_stim_data(data) ==
    IF IsSome(data.stim_data)
    THEN LET stim_data_arr == Unwrap(data.stim_data)
             num_channels == stim_data_arr.shape[1]
             num_samples == stim_data_arr.shape[2]
             Plane(f(_)) ==
                 [i \in 1 .. num_channels |->
                     [j \in 1 .. num_samples |-> f(At(stim_data_arr, i, j))]]
             Compliance(s) == StimFlag(s, 32768)
             ChargeRec(s) == StimFlag(s, 16384)
             AmpSettle(s) == StimFlag(s, 8192)
         IN  [stim_data |-> Plane(StimAmplitude),
              compliance_limit_data |-> Plane(Compliance),
              charge_recovery_data |-> Plane(ChargeRec),
              amp_settle_data |-> Plane(AmpSettle)]
    ELSE StimDataConversionEmpty

-----------------------------------------------------------------------------
(* Sample Converter: analog codes.                                         *)

(* the offset subtracted in the code's own 16-bit unsigned width *)
AffineF32Wrapping(arr, num, den, offset) ==
    LET num_channels == arr.shape[1]
        num_samples == arr.shape[2]
    IN  [i \in 1 .. num_channels |->
            [j \in 1 .. num_samples |->
                MulF32(num, den, AsI32(WrappingSubU16(At(arr, i, j), offset)))]]

AffineF32(arr, num, den, offset) ==
    LET num_channels == arr.shape[1]
        num_samples == arr.shape[2]
    IN  [i \in 1 .. num_channels |->
            [j \in 1 .. num_samples |->
                MulF32(num, den, AsI32(At(arr, i, j)) - offset)]]

convert_amplifier_data(data) ==
    IF IsSome(data.amplifier_data)
    THEN AffineF32(Unwrap(data.amplifier_data), 195, 1000, 32768)
    ELSE <<>>

convert_dc_amplifier_data(data) ==
    IF IsSome(data.dc_amplifier_data)
    THEN AffineF32(Unwrap(data.dc_amplifier_data), -1923, 100000, 512)
    ELSE <<>>

convert_board_adc_data(data) ==
    IF IsSome(data.board_adc_data)
    THEN LET adc_data == Unwrap(data.board_adc_data)
         IN  IF adc_data.shape[1] = 0 THEN <<>>
             ELSE AffineF32(adc_data, 3125, 10000000, 32768)
    ELSE <<>>

convert_board_dac_data(data) ==
    IF IsSome(data.board_dac_data)
    THEN LET dac_data == Unwrap(data.board_dac_data)
         IN  IF dac_data.shape[1] = 0 THEN <<>>
             ELSE AffineF32(dac_data, 3125, 10000000, 32768)
    ELSE <<>>

-----------------------------------------------------------------------------
(* Sample Converter: packed digital words.                                 *)

(* the bit taken at the channel's list position instead of its native_order *)
DigUnpackByPosition(raw, channels) ==
    LET num_channels == Len(channels)
        num_samples == Len(raw)
    IN  IF num_samples = 0 THEN <<>>
        ELSE [i \in 1 .. num_channels |->
                 [j \in 1 .. num_samples |->
                     BitAnd(raw[j], Shl1(i - 1)) # 0]]

DigUnpack(raw, channels) ==
    LET num_channels == Len(channels)
        num_samples == Len(raw)
    IN  IF num_samples = 0 THEN <<>>
        ELSE [i \in 1 .. num_channels |->
                 LET native_order == channels[i].native_order
                 IN  [j \in 1 .. num_samples |->
                         BitAnd(raw[j], Shl1(native_order)) # 0]]

convert_board_dig_in_raw(data, header) ==
    IF Len(header.board_dig_in_channels) = 0 THEN <<>>
    ELSE IF IsSome(data.board_dig_in_raw)
         THEN DigUnpack(Unwrap(data.board_dig_in_raw), header.board_dig_in_channels)
         ELSE <<>>

convert_board_dig_out_raw(data, header) ==
    IF Len(header.board_dig_out_channels) = 0 THEN <<>>
    ELSE IF IsSome(data.board_dig_out_raw)
         THEN DigUnpack(Unwrap(data.board_dig_out_raw), header.board_dig_out_channels)
         ELSE <<>>

-----------------------------------------------------------------------------
(* Header Projector.                                                       *)

convert_frequency_parameters(header) ==
    [amplifier_sample_rate |-> header.sample_rate,
     board_adc_sample_rate |-> header.sample_rate,
     board_dig_in_sample_rate |-> header.sample_rate,
     desired_dsp_cutoff_frequency |-> header.desired_dsp_cutoff_frequency,
     actual_dsp_cutoff_frequency |-> header.actual_dsp_cutoff_frequency,
     dsp_enabled |-> IntAsF32(header.dsp_enabled),
     desired_lower_bandwidth |-> header.desired_lower_bandwidth,
     actual_lower_bandwidth |-> header.actual_lower_bandwidth,
     desired_lower_settle_bandwidth |-> header.desired_lower_settle_bandwidth,
     actual_lower_settle_bandwidth |-> header.actual_lower_settle_bandwidth,
     desired_upper_bandwidth |-> header.desired_upper_bandwidth,
     actual_upper_bandwidth |-> header.actual_upper_bandwidth,
     notch_filter_frequency |->
         IF IsSome(header.notch_filter_frequency)
         THEN IntAsF32(Unwrap(header.notch_filter_frequency))
         ELSE Zero,
     desired_impedance_test_frequency |-> header.desired_impedance_test_frequency,
     actual_impedance_test_frequency |-> header.actual_impedance_test_frequency]

convert_notes(header) ==
    [note1 |-> header.notes.note1,
     note2 |-> header.notes.note2,
     note3 |-> header.notes.note3]

(* the two mode flags written under each other's key *)
convert_stim_parameters_swapped(header) ==
    [stim_step_size |-> header.stim_step_size,
     charge_recovery_current_limit |-> header.recovery_current_limit,
     charge_recovery_target_voltage |-> header.recovery_target_voltage,
     amp_settle_mode |-> IntAsF32(header.charge_recovery_mode),
     charge_recovery_mode |-> IntAsF32(header.amp_settle_mode)]

convert_stim_parameters(header) ==
    [stim_step_size |-> header.stim_step_size,
     charge_recovery_current_limit |-> header.recovery_current_limit,
     charge_recovery_target_voltage |-> header.recovery_target_voltage,
     amp_settle_mode |-> IntAsF32(header.amp_settle_mode),
     charge_recovery_mode |-> IntAsF32(header.charge_recovery_mode)]

convert_amplifier_channels(header) ==
    [k \in 1 .. Len(header.amplifier_channels) |->
        LET channel == header.amplifier_channels[k]
        IN  [native_channel_name |-> channel.native_channel_name,
             custom_channel_name |-> channel.custom_channel_name,
             native_order |-> IntToString(channel.native_order),
             custom_order |-> IntToString(channel.custom_order),
             chip_channel |-> IntToString(channel.chip_channel),
             board_stream |-> IntToString(channel.board_stream),
             electrode_impedance_magnitude |->
                 F32ToString(channel.electrode_impedance_magnitude),
             electrode_impedance_phase |->
                 F32ToString(channel.electrode_impedance_phase),
             port_name |-> channel.port_name,
             port_prefix |-> channel.port_prefix,
             port_number |-> IntToString(channel.port_number)]]

BoardChannelDict(channel) ==
    [native_channel_name |-> channel.native_channel_name,
     custom_channel_name |-> channel.custom_channel_name,
     native_order |-> IntToString(channel.native_order),
     custom_order |-> IntToString(channel.custom_order),
     board_stream |-> IntToString(channel.board_stream),
     port_name |-> channel.port_name,
     port_prefix |-> channel.port_prefix,
     port_number |-> IntToString(channel.port_number)]

convert_board_adc_channels(header) ==
    [k \in 1 .. Len(header.board_adc_channels) |->
        BoardChannelDict(header.board_adc_channels[k])]

convert_board_dac_channels(header) ==
    [k \in 1 .. Len(header.board_dac_channels) |->
        BoardChannelDict(header.board_dac_channels[k])]

convert_board_dig_in_channels(header) ==
    [k \in 1 .. Len(header.board_dig_in_channels) |->
        BoardChannelDict(header.board_dig_in_channels[k])]

convert_board_dig_out_channels(header) ==
    [k \in 1 .. Len(header.board_dig_out_channels) |->
        BoardChannelDict(header.board_dig_out_channels[k])]

convert_spike_triggers(header) ==
    [k \in 1 .. Len(header.spike_triggers) |->
        LET trigger == header.spike_triggers[k]
        IN  [voltage_trigger_mode |-> IntAsF32(trigger.voltage_trigger_mode),
             voltage_threshold |-> IntAsF32(trigger.voltage_threshold),
             digital_trigger_channel |-> IntAsF32(trigger.digital_trigger_channel),
             digital_edge_polarity |-> IntAsF32(trigger.digital_edge_polarity)]]

-----------------------------------------------------------------------------
(* load_rhs_file: the result record and its data fields.                   *)

(* a data field that starts out empty but present *)
UnsetDataEmpty == Some(<<>>)

(* a data field of the freshly built record *)
UnsetData == None

RHSResult(file) ==
    LET header == file.header
    IN  [data_present |-> file.data_present,
         frequency_parameters |-> convert_frequency_parameters(header),
         notes |-> convert_notes(header),
         reference_channel |-> header.reference_channel,
         stim_parameters |-> convert_stim_parameters(header),
         amplifier_channels |-> convert_amplifier_channels(header),
         board_adc_channels |-> convert_board_adc_channels(header),
         board_dac_channels |-> convert_board_dac_channels(header),
         board_dig_in_channels |-> convert_board_dig_in_channels(header),
         board_dig_out_channels |-> convert_board_dig_out_channels(header),
         t |-> <<>>,
         amplifier_data |-> UnsetData,
         dc_amplifier_data |-> UnsetData,
         stim_data |-> UnsetData,
         compliance_limit_data |-> UnsetData,
         charge_recovery_data |-> UnsetData,
         amp_settle_data |-> UnsetData,
         board_adc_data |-> UnsetData,
         board_dac_data |-> UnsetData,
         board_dig_in_data |-> UnsetData,
         board_dig_out_data |-> UnsetData,
         spike_triggers |-> convert_spike_triggers(header)]

(* timestamps in seconds: t as f32 / sample_rate, one quotient per tick *)
TimeSeconds(data, header) ==
    [k \in 1 .. Len(data.timestamps) |->
        <<data.timestamps[k] * header.sample_rate[2], header.sample_rate[1]>>]

(* the DC-amplifier array converted whatever the header flag says *)
DcAmplifierEntryUnflagged(data, header) == Some(convert_dc_amplifier_data(data))

DcAmplifierEntry(data, header) ==
    IF header.dc_amplifier_data_saved
    THEN Some(convert_dc_amplifier_data(data))
    ELSE UnsetData

(* a digital-in group without channels reported as no value *)
DigInEntryNoneIfEmpty(data, header) ==
    IF Len(header.board_dig_in_channels) = 0
    THEN None
    ELSE Some(convert_board_dig_in_raw(data, header))

DigInEntry(data, header) == Some(convert_board_dig_in_raw(data, header))

DigOutEntry(data, header) == Some(convert_board_dig_out_raw(data, header))

WithData(res, data, header) ==
    LET stim_conversion == convert_stim_data(data)
    IN  [res EXCEPT
            !.t = TimeSeconds(data, header),
            !.amplifier_data = Some(convert_amplifier_data(data)),
            !.dc_amplifier_data = DcAmplifierEntry(data, header),
            !.stim_data = Some(stim_conversion.stim_data),
            !.compliance_limit_data = Some(stim_conversion.compliance_limit_data),
            !.charge_recovery_data = Some(stim_conversion.charge_recovery_data),
            !.amp_settle_data = Some(stim_conversion.amp_settle_data),
            !.board_adc_data = Some(convert_board_adc_data(data)),
            !.board_dac_data = Some(convert_board_dac_data(data)),
            !.board_dig_in_data = DigInEntry(data, header),
            !.board_dig_out_data = DigOutEntry(data, header)]

-----------------------------------------------------------------------------
(* What the external decoder can hand over: headers and raw blocks.        *)

(* row-major fill of a rows x cols array: base, base + stride, ... mod 2^16 *)
PatternArray(rows, cols, base, stride) ==
    [shape |-> <<rows, cols>>,
     cells |-> [i \in 1 .. rows |->
                  [j \in 1 .. cols |->
                      (base + stride * ((i - 1) * cols + (j - 1))) % 65536]]]

PatternWords(n, base, stride) ==
    [j \in 1 .. n |-> (base + stride * (j - 1)) % 65536]

Channel(prefix, order, position) ==
    [native_channel_name |-> <<prefix, order>>,
     custom_channel_name |-> <<prefix, order>>,
     native_order |-> order,
     custom_order |-> position - 1,
     chip_channel |-> order,
     board_stream |-> 0,
     electrode_impedance_magnitude |-> <<50000, 1>>,
     electrode_impedance_phase |-> <<45, 1>>,
     port_name |-> "Port A",
     port_prefix |-> prefix,
     port_number |-> 1]

(* channels 0 .. n-1 of a group, in native order *)
ChannelList(prefix, n) == [k \in 1 .. n |-> Channel(prefix, k - 1, k)]

(* a digital group: the channels enabled, each at its own bit position *)
DigChannelList(prefix, orders) ==
    [k \in 1 .. Len(orders) |-> Channel(prefix, orders[k], k)]

SpikeTrigger ==
    [voltage_trigger_mode |-> 1,
     voltage_threshold |-> 70,
     digital_trigger_channel |-> 0,
     digital_edge_polarity |-> 1]

(* sequences of pairwise distinct bit positions, up to the given length *)
DistinctSeqs(S, maxLen) ==
    UNION {{q \in [1 .. n -> S] : \A a, b \in 1 .. n : a # b => q[a] # q[b]}
           : n \in 0 .. maxLen}

Header(nAmp, nAdc, nDac, dinOrders, doutOrders, dcSaved, rate, dsp, notch, settle, recovery) ==
    [sample_rate |-> <<rate, 1>>,
     desired_dsp_cutoff_frequency |-> <<1, 1>>,
     actual_dsp_cutoff_frequency |-> <<78, 100>>,
     dsp_enabled |-> dsp,
     desired_lower_bandwidth |-> <<1, 10>>,
     actual_lower_bandwidth |-> <<9, 100>>,
     desired_lower_settle_bandwidth |-> <<1000, 1>>,
     actual_lower_settle_bandwidth |-> <<1000, 1>>,
     desired_upper_bandwidth |-> <<7500, 1>>,
     actual_upper_bandwidth |-> <<7604, 1>>,
     notch_filter_frequency |-> notch,
     desired_impedance_test_frequency |-> <<1000, 1>>,
     actual_impedance_test_frequency |-> <<1000, 1>>,
     notes |-> [note1 |-> "n1", note2 |-> "", note3 |-> "n3"],
     reference_channel |-> "n/a",
     stim_step_size |-> <<1, 100000>>,
     recovery_current_limit |-> <<1, 1000000>>,
     recovery_target_voltage |-> <<0, 1>>,
     amp_settle_mode |-> settle,
     charge_recovery_mode |-> recovery,
     dc_amplifier_data_saved |-> dcSaved,
     amplifier_channels |-> ChannelList("A", nAmp),
     board_adc_channels |-> ChannelList("ANALOG-IN", nAdc),
     board_dac_channels |-> ChannelList("ANALOG-OUT", nDac),
     board_dig_in_channels |-> DigChannelList("DIGITAL-IN", dinOrders),
     board_dig_out_channels |-> DigChannelList("DIGITAL-OUT", doutOrders),
     spike_triggers |-> [k \in 1 .. nAmp |-> SpikeTrigger]]

EmptyHeader == Header(0, 0, 0, <<>>, <<>>, FALSE, 30000, 0, None, 0, 0)

EmptyData ==
    [timestamps |-> <<>>,
     amplifier_data |-> None,
     dc_amplifier_data |-> None,
     stim_data |-> None,
     board_adc_data |-> None,
     board_dac_data |-> None,
     board_dig_in_raw |-> None,
     board_dig_out_raw |-> None]

-----------------------------------------------------------------------------
(* The converters on their own: each is applied once to a raw block.       *)

Idle(p, file) ==
    /\ pc = p
    /\ rhs_file = file
    /\ filename = ""
    /\ result = None
    /\ err = None
    /\ load_calls = 0
    /\ load_error = None
    /\ work_started = FALSE

Apply(from, to, value) ==
    /\ pc = from
    /\ pc' = to
    /\ result' = Some(value)
    /\ UNCHANGED <<filename, rhs_file, err, load_calls, load_error, work_started>>

BlockOnly(data) == [header |-> EmptyHeader, data_present |-> TRUE, data |-> Some(data)]

(* the raw block of the loaded file *)
RawData == Unwrap(rhs_file.data)

(* bit n of w, by division *)
Bit(w, n) == (w \div Pow2(n)) % 2 = 1

PureShapes == (0 .. PureRows) \X (0 .. PureCols)

(* every 16-bit code in a single cell, chosen codes in the larger arrays *)
PureBases(shape, chosen) ==
    IF shape[1] * shape[2] = 0 THEN {0}
    ELSE IF shape = <<1, 1>> THEN Word16
    ELSE chosen

(* 0x0000 0x0005 0x00FF 0x0105 0x01FF 0x0205 0x1E05 0x2000 0x4000 0x8000 0xFFFF *)
StimWords == {0, 5, 255, 261, 511, 517, 7685, 8192, 16384, 32768, 65535}

StimBlock(sh, b) ==
    [EmptyData EXCEPT !.stim_data = Some(PatternArray(sh[1], sh[2], b, 8192 + 256 + 5))]

InitStim ==
    \/ Idle("stim_call", BlockOnly(EmptyData))
    \/ \E sh \in PureShapes : \E b \in PureBases(sh, StimWords) :
           Idle("stim_call", BlockOnly(StimBlock(sh, b)))

StimConvert == Apply("stim_call", "stim_done", convert_stim_data(RawData))

NextStim == StimConvert

SpecStim == InitStim /\ [][NextStim]_vars

(* C1: convert_stim_data decodes every word w at [i][j] as bit 15 ->        *)
(* compliance limit, bit 14 -> charge recovery, bit 13 -> amp settle, and   *)
(* the amplitude w & 0xFF, negated when bit 8 is set; all four planes have  *)
(* the raw block's shape.                                                   *)
C1_StimDecode ==
    (pc = "stim_done" /\ IsSome(RawData.stim_data)) =>
        LET arr == Unwrap(RawData.stim_data)
            out == Unwrap(result)
            Planes == <<out.stim_data, out.compliance_limit_data,
                        out.charge_recovery_data, out.amp_settle_data>>
        IN  /\ \A p \in 1 .. 4 :
                /\ Len(Planes[p]) = arr.shape[1]
                /\ \A i \in 1 .. arr.shape[1] : Len(Planes[p][i]) = arr.shape[2]
            /\ \A i \in 1 .. arr.shape[1], j \in 1 .. arr.shape[2] :
                LET w == At(arr, i, j)
                    magnitude == w % 256
                IN  /\ out.compliance_limit_data[i][j] = Bit(w, 15)
                    /\ out.charge_recovery_data[i][j] = Bit(w, 14)
                    /\ out.amp_settle_data[i][j] = Bit(w, 13)
                    /\ out.stim_data[i][j]
                         = <<IF Bit(w, 8) THEN 0 - magnitude ELSE magnitude, 1>>
                    /\ w = 32768 =>
                         /\ out.compliance_limit_data[i][j]
                         /\ ~out.charge_recovery_data[i][j]
                         /\ ~out.amp_settle_data[i][j]
                         /\ out.stim_data[i][j] = <<0, 1>>
                    /\ w = 261 => out.stim_data[i][j] = <<-5, 1>>
                    /\ w = 5 => out.stim_data[i][j] = <<5, 1>>

(* a 2 x 2 block whose first word is 0x0105 has been decoded to -5 *)
C1_Witness ==
    /\ pc = "stim_done"
    /\ IsSome(RawData.stim_data)
    /\ Unwrap(RawData.stim_data).shape = <<2, 2>>
    /\ At(Unwrap(RawData.stim_data), 1, 1) = 261
    /\ Unwrap(result).stim_data[1][1] = <<-5, 1>>
    /\ Unwrap(result).compliance_limit_data[2][2] = Bit(At(Unwrap(RawData.stim_data), 2, 2), 15)

-----------------------------------------------------------------------------
(* Digital demultiplexing on its own.                                      *)

(* each single bit, no bit, every bit, 0xA5A5 *)
DigWords == {Pow2(k) : k \in 0 .. 15} \cup {0, 65535, 42405}

(* every bit position alone, and the lists over positions 0, 3 and 15 *)
DigOrderLists ==
    {<<n>> : n \in 0 .. 15} \cup DistinctSeqs({0, 3, 15}, PureDig)

DigRaws ==
    {None} \cup
    {Some(PatternWords(n, b, 4096 + 8 + 1)) : n \in 0 .. PureCols, b \in DigWords}

InitDig ==
    \E orders \in DigOrderLists : \E raw \in DigRaws :
        \/ Idle("dig_in_call",
                [header |-> Header(0, 0, 0, orders, <<>>, FALSE, 30000, 0, None, 0, 0),
                 data_present |-> TRUE,
                 data |-> Some([EmptyData EXCEPT !.board_dig_in_raw = raw])])
        \/ Idle("dig_out_call",
                [header |-> Header(0, 0, 0, <<>>, orders, FALSE, 30000, 0, None, 0, 0),
                 data_present |-> TRUE,
                 data |-> Some([EmptyData EXCEPT !.board_dig_out_raw = raw])])

DigInConvert ==
    Apply("dig_in_call", "dig_in_done",
          convert_board_dig_in_raw(RawData, rhs_file.header))

DigOutConvert ==
    Apply("dig_out_call", "dig_out_done",
          convert_board_dig_out_raw(RawData, rhs_file.header))

NextDig == DigInConvert \/ DigOutConvert

SpecDig == InitDig /\ [][NextDig]_vars

(* the demultiplexed output of one digital group against its packed words *)
Demultiplexed(out, channels, raw) ==
    (IsSome(raw) /\ Len(Unwrap(raw)) > 0) =>
        LET words == Unwrap(raw)
        IN  /\ Len(out) = Len(channels)
            /\ \A i \in 1 .. Len(channels) :
                /\ Len(out[i]) = Len(words)
                /\ \A j \in 1 .. Len(words) :
                    /\ out[i][j] = Bit(words[j], channels[i].native_order)
                    /\ words[j] = 8 =>
                         (out[i][j] <=> channels[i].native_order = 3)

(* C2: for the channel at list position i with native_order n and every    *)
(* sample j, digital-in and digital-out output [i][j] is true exactly when  *)
(* bit n of the j-th packed word is set.                                    *)
C2_DigitalDemux ==
    /\ pc = "dig_in_done" =>
         Demultiplexed(Unwrap(result), rhs_file.header.board_dig_in_channels,
                       RawData.board_dig_in_raw)
    /\ pc = "dig_out_done" =>
         Demultiplexed(Unwrap(result), rhs_file.header.board_dig_out_channels,
                       RawData.board_dig_out_raw)

(* channels at bits 15 and 3, in that list order, over the word 0b1000 *)
C2_Witness ==
    /\ pc = "dig_in_done"
    /\ Len(rhs_file.header.board_dig_in_channels) = 2
    /\ rhs_file.header.board_dig_in_channels[1].native_order = 15
    /\ rhs_file.header.board_dig_in_channels[2].native_order = 3
    /\ IsSome(RawData.board_dig_in_raw)
    /\ Len(Unwrap(RawData.board_dig_in_raw)) = 2
    /\ Unwrap(RawData.board_dig_in_raw)[1] = 8
    /\ Unwrap(result)[2][1] = TRUE
    /\ Unwrap(result)[1][1] = FALSE

-----------------------------------------------------------------------------
(* The analog converters on their own.                                     *)

AnalogCodes == {0, 1, 511, 512, 513, 32767, 32768, 32769, 32963, 65535}

AnalogArray(sh, b) == Some(PatternArray(sh[1], sh[2], b, 32768 + 255))

InitAnalog ==
    \/ \E p \in {"amplifier_call", "dc_amplifier_call", "board_adc_call", "board_dac_call"} :
           Idle(p, BlockOnly(EmptyData))
    \/ \E sh \in PureShapes : \E b \in PureBases(sh, AnalogCodes) :
           \/ Idle("amplifier_call",
                   BlockOnly([EmptyData EXCEPT !.amplifier_data = AnalogArray(sh, b)]))
           \/ Idle("dc_amplifier_call",
                   BlockOnly([EmptyData EXCEPT !.dc_amplifier_data = AnalogArray(sh, b)]))
           \/ Idle("board_adc_call",
                   BlockOnly([EmptyData EXCEPT !.board_adc_data = AnalogArray(sh, b)]))
           \/ Idle("board_dac_call",
                   BlockOnly([EmptyData EXCEPT !.board_dac_data = AnalogArray(sh, b)]))

AmplifierConvert ==
    Apply("amplifier_call", "amplifier_done", convert_amplifier_data(RawData))

DcAmplifierConvert ==
    Apply("dc_amplifier_call", "dc_amplifier_done", convert_dc_amplifier_data(RawData))

BoardAdcConvert ==
    Apply("board_adc_call", "board_adc_done", convert_board_adc_data(RawData))

BoardDacConvert ==
    Apply("board_dac_call", "board_dac_done", convert_board_dac_data(RawData))

NextAnalog ==
    \/ AmplifierConvert
    \/ DcAmplifierConvert
    \/ BoardAdcConvert
    \/ BoardDacConvert

SpecAnalog == InitAnalog /\ [][NextAnalog]_vars

(* out[i][j] = (num / den) * (c - offset) for every code c of the raw array *)
Calibrated(out, raw, num, den, offset) ==
    IsSome(raw) =>
        LET arr == Unwrap(raw)
        IN  /\ Len(out) = arr.shape[1]
            /\ \A i \in 1 .. arr.shape[1] :
                /\ Len(out[i]) = arr.shape[2]
                /\ \A j \in 1 .. arr.shape[2] :
                    LET c == At(arr, i, j)
                    IN  /\ out[i][j] = <<num * (c - offset), den>>
                        /\ c = offset => out[i][j][1] = 0
                        /\ (c = 65535 /\ offset = 32768) =>
                             out[i][j][1] = num * 32767
                        /\ (c = 0 /\ offset = 512) =>
                             out[i][j][1] = num * (0 - 512)

(* C4: every analog converter yields scale * (c - offset) at [i][j], the   *)
(* difference a signed integer: amplifier 0.195 and 32768, DC amplifier     *)
(* -0.01923 and 512, board ADC and DAC 312.5e-6 and 32768.                  *)
C4_AnalogAffine ==
    /\ pc = "amplifier_done" =>
         Calibrated(Unwrap(result), RawData.amplifier_data, 195, 1000, 32768)
    /\ pc = "dc_amplifier_done" =>
         Calibrated(Unwrap(result), RawData.dc_amplifier_data, -1923, 100000, 512)
    /\ pc = "board_adc_done" =>
         Calibrated(Unwrap(result), RawData.board_adc_data, 3125, 10000000, 32768)
    /\ pc = "board_dac_done" =>
         Calibrated(Unwrap(result), RawData.board_dac_data, 3125, 10000000, 32768)

(* a DC-amplifier code below its offset has been converted to a positive value *)
C4_Witness ==
    /\ pc = "dc_amplifier_done"
    /\ IsSome(RawData.dc_amplifier_data)
    /\ Unwrap(RawData.dc_amplifier_data).shape = <<1, 1>>
    /\ At(Unwrap(RawData.dc_amplifier_data), 1, 1) = 0
    /\ Unwrap(result)[1][1] = <<984576, 100000>>

-----------------------------------------------------------------------------
(* load_rhs_file, step by step.                                            *)

Paths == {"missing.rhs", "session.rhs"}

ExistingFiles == {"session.rhs"}

DecoderMessages == {"unexpected end of file", "bad magic number"}

(* Path::new(filename).exists(), with the check left out *)
PathExistsUnchecked(f) == TRUE

PathExists(f) == f \in ExistingFiles

FileNotFoundError(f) == [kind |-> "FileNotFoundError", msg |-> <<"File not found: ", f>>]

IOError(e) == [kind |-> "IOError", msg |-> <<"Error loading RHS file: ", e>>]

(* the ways a decoder can break its contract on one raw array *)
Faults ==
    {<<"none", "">>}
      \cup {<<"extra_row", k>> :
               k \in {"amplifier", "dc_amplifier", "stim", "board_adc", "board_dac"}}
      \cup {<<"missing", k>> :
               k \in {"amplifier", "dc_amplifier", "stim", "board_adc", "board_dac",
                      "board_dig_in", "board_dig_out"}}

(* the raw array of one datatype: rows x n, one row more, or not there *)
RawArray(kind, fault, rows, n, base, stride) ==
    IF fault = <<"missing", kind>> THEN None
    ELSE Some(PatternArray(IF fault = <<"extra_row", kind>> THEN rows + 1 ELSE rows,
                           n, base, stride))

RawWords(kind, fault, n, base, stride) ==
    IF fault = <<"missing", kind>> THEN None
    ELSE Some(PatternWords(n, base, stride))

RawBlock(header, n, dcRaw, fault) ==
    LET nAmp == Len(header.amplifier_channels)
    IN  [timestamps |-> [k \in 1 .. n |-> k - 1],
         amplifier_data |-> RawArray("amplifier", fault, nAmp, n, 32768, 195),
         dc_amplifier_data |->
             IF dcRaw THEN RawArray("dc_amplifier", fault, nAmp, n, 0, 512) ELSE None,
         stim_data |-> RawArray("stim", fault, nAmp, n, 32768 + 256 + 5, 8192),
         board_adc_data |->
             RawArray("board_adc", fault, Len(header.board_adc_channels), n, 65535, 32769),
         board_dac_data |->
             RawArray("board_dac", fault, Len(header.board_dac_channels), n, 32768, 1),
         board_dig_in_raw |-> RawWords("board_dig_in", fault, n, 8, 1),
         board_dig_out_raw |-> RawWords("board_dig_out", fault, n, 1, 7)]

LoadDigInLists == DistinctSeqs({0, 3}, MaxDig)

LoadDigOutLists == DistinctSeqs({1}, MaxDig)

Init ==
    /\ pc = "idle"
    /\ filename = ""
    /\ rhs_file = None
    /\ result = None
    /\ err = None
    /\ load_calls = 0
    /\ load_error = None
    /\ work_started = FALSE

(* the caller passes a path *)
Call ==
    /\ pc = "idle"
    /\ \E f \in Paths : filename' = f
    /\ pc' = "exists"
    /\ UNCHANGED <<rhs_file, result, err, load_calls, load_error, work_started>>

CheckExists ==
    /\ pc = "exists"
    /\ IF PathExists(filename)
       THEN /\ pc' = "load"
            /\ err' = err
       ELSE /\ pc' = "error"
            /\ err' = Some(FileNotFoundError(filename))
    /\ UNCHANGED <<filename, rhs_file, result, load_calls, load_error, work_started>>

(* load(filename) returns Err(e): always for a path that is not there *)
LoadFails ==
    /\ pc = "load"
    /\ load_calls' = load_calls + 1
    /\ \E e \in DecoderMessages :
        /\ load_error' = Some(e)
        /\ err' = Some(IOError(e))
    /\ pc' = "error"
    /\ UNCHANGED <<filename, rhs_file, result, work_started>>

(* load(filename) returns Ok(file) *)
LoadSucceeds ==
    /\ pc = "load"
    /\ filename \in ExistingFiles
    /\ load_calls' = load_calls + 1
    /\ \E nAmp \in 0 .. MaxAmp, nAdc \in 0 .. MaxAux, nDac \in 0 .. MaxAux,
          dinOrders \in LoadDigInLists, doutOrders \in LoadDigOutLists, dcSaved \in BOOLEAN :
        LET header == Header(nAmp, nAdc, nDac, dinOrders, doutOrders, dcSaved,
                             30000, 1, Some(60), 0, 1)
        IN  \/ rhs_file' = [header |-> header, data_present |-> FALSE, data |-> None]
            \/ \E n \in 0 .. MaxSamples, fault \in Faults,
                  dcRaw \in (IF dcSaved THEN {TRUE} ELSE BOOLEAN) :
                   rhs_file' = [header |-> header,
                                data_present |-> TRUE,
                                data |-> Some(RawBlock(header, n, dcRaw, fault))]
    /\ pc' = "project"
    /\ UNCHANGED <<filename, result, err, load_error, work_started>>

(* lines 82-105: the record with the header projection and no data *)
Project ==
    /\ pc = "project"
    /\ result' = Some(RHSResult(rhs_file))
    /\ work_started' = TRUE
    /\ pc' = "data"
    /\ UNCHANGED <<filename, rhs_file, err, load_calls, load_error>>

(* lines 108-135 and 137 with data_present *)
ConvertData ==
    /\ pc = "data"
    /\ rhs_file.data_present
    /\ IsSome(rhs_file.data)
    /\ result' = Some(WithData(Unwrap(result), Unwrap(rhs_file.data), rhs_file.header))
    /\ pc' = "done"
    /\ UNCHANGED <<filename, rhs_file, err, load_calls, load_error, work_started>>

(* line 137 without data_present *)
ReturnHeaderOnly ==
    /\ pc = "data"
    /\ ~rhs_file.data_present
    /\ pc' = "done"
    /\ UNCHANGED <<filename, rhs_file, result, err, load_calls, load_error, work_started>>

Next ==
    \/ Call
    \/ CheckExists
    \/ LoadFails
    \/ LoadSucceeds
    \/ Project
    \/ ConvertData
    \/ ReturnHeaderOnly

Spec == Init /\ [][Next]_vars

-----------------------------------------------------------------------------
(* Properties of a load.                                                   *)

Returned == pc = "done"

Loaded == Unwrap(result)

(* the raw channel count of a datatype disagrees with the header's list *)
RowsMismatch(raw, n) ==
    IF IsSome(raw) THEN Unwrap(raw).shape[1] # n ELSE n > 0

ShapeMismatch(header, data) ==
    LET nAmp == Len(header.amplifier_channels)
    IN  \/ RowsMismatch(data.amplifier_data, nAmp)
        \/ header.dc_amplifier_data_saved /\ RowsMismatch(data.dc_amplifier_data, nAmp)
        \/ RowsMismatch(data.stim_data, nAmp)
        \/ RowsMismatch(data.board_adc_data, Len(header.board_adc_channels))
        \/ RowsMismatch(data.board_dac_data, Len(header.board_dac_channels))
        \/ ~IsSome(data.board_dig_in_raw) /\ Len(header.board_dig_in_channels) > 0
        \/ ~IsSome(data.board_dig_out_raw) /\ Len(header.board_dig_out_channels) > 0

(* the decoder kept its contract on the raw block it handed over *)
ContractKept == rhs_file.data_present /\ ~ShapeMismatch(rhs_file.header, RawData)

(* an entry with `channels` rows of `samples` values each *)
HasShape(entry, channels, samples) ==
    /\ IsSome(entry)
    /\ Len(Unwrap(entry)) = channels
    /\ \A i \in 1 .. Len(Unwrap(entry)) : Len(Unwrap(entry)[i]) = samples

(* every present datatype of the result is channels x samples *)
AllShaped(samples) ==
    LET header == rhs_file.header
        nAmp == Len(header.amplifier_channels)
    IN  /\ HasShape(Loaded.amplifier_data, nAmp, samples)
        /\ IsSome(Loaded.dc_amplifier_data) =>
             HasShape(Loaded.dc_amplifier_data, nAmp, samples)
        /\ HasShape(Loaded.stim_data, nAmp, samples)
        /\ HasShape(Loaded.compliance_limit_data, nAmp, samples)
        /\ HasShape(Loaded.charge_recovery_data, nAmp, samples)
        /\ HasShape(Loaded.amp_settle_data, nAmp, samples)
        /\ HasShape(Loaded.board_adc_data, Len(header.board_adc_channels), samples)
        /\ HasShape(Loaded.board_dac_data, Len(header.board_dac_channels), samples)
        /\ HasShape(Loaded.board_dig_in_data, Len(header.board_dig_in_channels), samples)
        /\ HasShape(Loaded.board_dig_out_data, Len(header.board_dig_out_channels), samples)

(* C3: after a load with raw data present, every present datatype has as   *)
(* many channels as the header's descriptor list and as many samples per   *)
(* channel as there are raw timestamps.  Stated for the loads in which the *)
(* decoder kept its contract, the weakest reading of the claim.            *)
C3_Shape ==
    (Returned /\ ContractKept) => AllShaped(Len(RawData.timestamps))

(* C5: without the header's dc_amplifier_data_saved flag the result has no *)
(* DC-amplifier entry, whatever the raw block carries.                     *)
C5_NoDcEntry ==
    (Returned /\ ~rhs_file.header.dc_amplifier_data_saved) =>
        Loaded.dc_amplifier_data = None

(* a load has returned whose raw block carries a non-empty DC-amplifier    *)
(* array although the flag is unset                                        *)
C5_Witness ==
    /\ Returned
    /\ rhs_file.data_present
    /\ ~rhs_file.header.dc_amplifier_data_saved
    /\ IsSome(RawData.dc_amplifier_data)
    /\ Unwrap(RawData.dc_amplifier_data).shape = <<2, 2>>
    /\ Loaded.dc_amplifier_data = None
    /\ IsSome(Loaded.amplifier_data)

(* C6: with raw data present and no digital-in channels the digital-in      *)
(* entry is present and empty, and no error is raised, whatever packed      *)
(* words the raw block holds; likewise for digital-out.                     *)
C6_EmptyDigital ==
    (Returned /\ rhs_file.data_present) =>
        /\ err = None
        /\ Len(rhs_file.header.board_dig_in_channels) = 0 =>
             Loaded.board_dig_in_data = Some(<<>>)
        /\ Len(rhs_file.header.board_dig_out_channels) = 0 =>
             Loaded.board_dig_out_data = Some(<<>>)

(* a load has returned with two packed digital-in words and no digital-in  *)
(* channel                                                                  *)
C6_Witness ==
    /\ Returned
    /\ rhs_file.data_present
    /\ Len(rhs_file.header.board_dig_in_channels) = 0
    /\ Len(rhs_file.header.board_dig_out_channels) > 0
    /\ IsSome(RawData.board_dig_in_raw)
    /\ Len(Unwrap(RawData.board_dig_in_raw)) = 2
    /\ Loaded.board_dig_in_data = Some(<<>>)

DataFields(r) ==
    <<r.amplifier_data, r.dc_amplifier_data, r.stim_data, r.compliance_limit_data,
      r.charge_recovery_data, r.amp_settle_data, r.board_adc_data, r.board_dac_data,
      r.board_dig_in_data, r.board_dig_out_data>>

(* C7: a successful load carries the header projection with or without     *)
(* data, and without data t is empty and all ten data fields are no value.  *)
C7_ProjectionAlways ==
    Returned =>
        LET header == rhs_file.header
        IN  /\ IsSome(result)
            /\ Loaded.data_present = rhs_file.data_present
            /\ Loaded.frequency_parameters.amplifier_sample_rate = header.sample_rate
            /\ Loaded.notes.note1 = header.notes.note1
            /\ Loaded.stim_parameters.stim_step_size = header.stim_step_size
            /\ Len(Loaded.amplifier_channels) = Len(header.amplifier_channels)
            /\ Len(Loaded.board_adc_channels) = Len(header.board_adc_channels)
            /\ Len(Loaded.board_dac_channels) = Len(header.board_dac_channels)
            /\ Len(Loaded.board_dig_in_channels) = Len(header.board_dig_in_channels)
            /\ Len(Loaded.board_dig_out_channels) = Len(header.board_dig_out_channels)
            /\ Len(Loaded.spike_triggers) = Len(header.spike_triggers)
            /\ ~rhs_file.data_present =>
                 /\ Loaded.t = <<>>
                 /\ \A k \in 1 .. 10 : DataFields(Loaded)[k] = None

(* a header-only load of a file with channels in every group has returned  *)
C7_Witness ==
    /\ Returned
    /\ ~rhs_file.data_present
    /\ Len(rhs_file.header.amplifier_channels) = 2
    /\ Len(rhs_file.header.board_dig_in_channels) = 1
    /\ Len(Loaded.amplifier_channels) = 2
    /\ Loaded.t = <<>>
    /\ Loaded.stim_data = None

(* C8: a load whose raw channel count disagrees with the header's list for *)
(* some datatype does not return a result.                                 *)
C8_MismatchFatal ==
    (Returned /\ rhs_file.data_present) => ~ShapeMismatch(rhs_file.header, RawData)

(* C9: a path that is not there gives the not-found error with the path     *)
(* and no decoder call; a decoder failure gives the I/O error with the      *)
(* decoder's message after exactly one call; the decoder is called at most  *)
(* once and only for a path that exists; neither error leaves a result or   *)
(* any projection or conversion work behind.                                *)
C9_RecoverableErrors ==
    /\ load_calls <= 1
    /\ load_calls = 1 => filename \in ExistingFiles
    /\ work_started => (load_calls = 1 /\ err = None /\ load_error = None)
    /\ (pc \in {"error", "done"} /\ filename \notin ExistingFiles) =>
         /\ pc = "error"
         /\ err = Some([kind |-> "FileNotFoundError",
                        msg |-> <<"File not found: ", filename>>])
         /\ load_calls = 0
    /\ IsSome(load_error) =>
         /\ pc = "error"
         /\ load_calls = 1
         /\ err = Some([kind |-> "IOError",
                        msg |-> <<"Error loading RHS file: ", Unwrap(load_error)>>])
    /\ pc = "error" =>
         /\ IsSome(err)
         /\ result = None
         /\ rhs_file = None
         /\ ~work_started

(* the decoder has failed on a file that exists *)
C9_Witness ==
    /\ pc = "error"
    /\ filename = "session.rhs"
    /\ load_calls = 1
    /\ load_error = Some("bad magic number")
    /\ Unwrap(err).kind = "IOError"

(* one empty sequence per channel *)
EmptyRows(channels) == Some([k \in 1 .. channels |-> <<>>])

(* C10: a raw block with zero samples converts without error to one empty  *)
(* sequence per channel, for the analog, the stimulation and the digital   *)
(* datatypes alike.  Stated for the loads in which the decoder kept its    *)
(* contract.                                                               *)
C10_ZeroSamples ==
    (Returned /\ ContractKept /\ Len(RawData.timestamps) = 0) =>
        LET header == rhs_file.header
            nAmp == Len(header.amplifier_channels)
        IN  /\ err = None
            /\ Loaded.amplifier_data = EmptyRows(nAmp)
            /\ header.dc_amplifier_data_saved =>
                 Loaded.dc_amplifier_data = EmptyRows(nAmp)
            /\ Loaded.stim_data = EmptyRows(nAmp)
            /\ Loaded.compliance_limit_data = EmptyRows(nAmp)
            /\ Loaded.charge_recovery_data = EmptyRows(nAmp)
            /\ Loaded.amp_settle_data = EmptyRows(nAmp)
            /\ Loaded.board_adc_data = EmptyRows(Len(header.board_adc_channels))
            /\ Loaded.board_dac_data = EmptyRows(Len(header.board_dac_channels))
            /\ Loaded.board_dig_in_data = EmptyRows(Len(header.board_dig_in_channels))
            /\ Loaded.board_dig_out_data = EmptyRows(Len(header.board_dig_out_channels))

-----------------------------------------------------------------------------
(* The frequency and stimulation parameter maps on their own.              *)

(* the header's flags are numeric fields (they are cast `as f32`): 1 is    *)
(* true, 0 is false                                                        *)
FlagValues == {0, 1}

SampleRates == {20000, 25000, 30000}

NotchValues == {None, Some(0), Some(50), Some(60)}

InitHeader ==
    \E p \in {"frequency_call", "stim_parameters_call"} :
    \E rate \in SampleRates, dsp \in FlagValues, notch \in NotchValues,
       settle \in FlagValues, recovery \in FlagValues, nAmp \in 0 .. MaxAmp :
        Idle(p, [header |-> Header(nAmp, 0, 0, <<>>, <<>>, FALSE,
                                   rate, dsp, notch, settle, recovery),
                 data_present |-> FALSE,
                 data |-> None])

FrequencyConvert ==
    Apply("frequency_call", "frequency_done",
          convert_frequency_parameters(rhs_file.header))

StimParametersConvert ==
    Apply("stim_parameters_call", "stim_parameters_done",
          convert_stim_parameters(rhs_file.header))

NextHeader == FrequencyConvert \/ StimParametersConvert

SpecHeader == InitHeader /\ [][NextHeader]_vars

(* true -> 1.0, false -> 0.0 *)
FlagAsFloat(flag) == IF flag # 0 THEN <<1, 1>> ELSE <<0, 1>>

(* C11: the frequency parameters map has amplifier_sample_rate,            *)
(* board_adc_sample_rate and board_dig_in_sample_rate all equal to the      *)
(* header's sample rate, notch_filter_frequency equal to the header value   *)
(* when set and 0 when unset, and dsp_enabled 1 for a true flag and 0 for   *)
(* a false one; the stim parameters map coerces amp_settle_mode and         *)
(* charge_recovery_mode the same way.                                       *)
C11_ParameterMaps ==
    LET header == rhs_file.header
    IN  /\ pc = "frequency_done" =>
             LET out == Unwrap(result)
             IN  /\ {"amplifier_sample_rate", "board_adc_sample_rate",
                     "board_dig_in_sample_rate", "notch_filter_frequency",
                     "dsp_enabled"} \subseteq DOMAIN out
                 /\ out.amplifier_sample_rate = header.sample_rate
                 /\ out.board_adc_sample_rate = header.sample_rate
                 /\ out.board_dig_in_sample_rate = header.sample_rate
                 /\ out.notch_filter_frequency =
                      (IF header.notch_filter_frequency = None
                       THEN <<0, 1>>
                       ELSE <<header.notch_filter_frequency[1], 1>>)
                 /\ out.dsp_enabled = FlagAsFloat(header.dsp_enabled)
        /\ pc = "stim_parameters_done" =>
             LET out == Unwrap(result)
             IN  /\ {"amp_settle_mode", "charge_recovery_mode"} \subseteq DOMAIN out
                 /\ out.amp_settle_mode = FlagAsFloat(header.amp_settle_mode)
                 /\ out.charge_recovery_mode = FlagAsFloat(header.charge_recovery_mode)

(* a header at 25 kHz with the notch filter unset and DSP enabled has been *)
(* projected                                                               *)
C11_Witness ==
    /\ pc = "frequency_done"
    /\ rhs_file.header.sample_rate = <<25000, 1>>
    /\ rhs_file.header.notch_filter_frequency = None
    /\ rhs_file.header.dsp_enabled = 1
    /\ Unwrap(result).notch_filter_frequency = <<0, 1>>
    /\ Unwrap(result).dsp_enabled = <<1, 1>>
    /\ Unwrap(result).board_dig_in_sample_rate = <<25000, 1>>

-----------------------------------------------------------------------------
(* Which bits of a stimulation word each output depends on.                *)

(* w with bits 9-12 replaced by the four bits of m *)
WithBits9to12(w, m) == w - ((w \div 512) % 16) * 512 + m * 512

(* w with everything but bits 0-8 cleared *)
LowNine(w) == w % 512

(* w with everything but bit n cleared *)
OnlyBit(w, n) == ((w \div Pow2(n)) % 2) * Pow2(n)

(* the four outputs decoded from one word *)
StimDecode(w) ==
    <<StimAmplitude(w), StimFlag(w, 32768), StimFlag(w, 16384), StimFlag(w, 8192)>>

(* C12: for every stimulation word the decoded amplitude is an integer in  *)
(* -255 .. 255; it decodes as the words with its bits 9-12 all cleared and  *)
(* all set do, so two words that differ only in bits 9-12 (they share the   *)
(* cleared word) decode alike; the amplitude is that of bits 0-8 alone      *)
(* and each flag is that of its own bit alone, so no flag bit changes the   *)
(* amplitude and no amplitude or polarity bit changes a flag.               *)
C12_StimBitIndependence ==
    (pc = "stim_done" /\ IsSome(RawData.stim_data)) =>
        LET arr == Unwrap(RawData.stim_data)
            out == Unwrap(result)
        IN  /\ Len(out.stim_data) = arr.shape[1]
            /\ \A i \in 1 .. arr.shape[1] : Len(out.stim_data[i]) = arr.shape[2]
            /\ \A i \in 1 .. arr.shape[1], j \in 1 .. arr.shape[2] :
                LET w == At(arr, i, j)
                    decoded == <<out.stim_data[i][j],
                                 out.compliance_limit_data[i][j],
                                 out.charge_recovery_data[i][j],
                                 out.amp_settle_data[i][j]>>
                IN  /\ decoded[1][2] = 1
                    /\ decoded[1][1] \in -255 .. 255
                    /\ \A m \in {0, 15} : StimDecode(WithBits9to12(w, m)) = decoded
                    /\ StimAmplitude(LowNine(w)) = decoded[1]
                    /\ StimFlag(OnlyBit(w, 15), 32768) = decoded[2]
                    /\ StimFlag(OnlyBit(w, 14), 16384) = decoded[3]
                    /\ StimFlag(OnlyBit(w, 13), 8192) = decoded[4]
                    /\ ~StimFlag(w - OnlyBit(w, 15), 32768)
                    /\ ~StimFlag(w - OnlyBit(w, 14), 16384)
                    /\ ~StimFlag(w - OnlyBit(w, 13), 8192)

(* the word 0x1E05, bits 9-12 all set, has been decoded to +5 and no flag  *)
C12_Witness ==
    /\ pc = "stim_done"
    /\ IsSome(RawData.stim_data)
    /\ Unwrap(RawData.stim_data).shape = <<1, 1>>
    /\ At(Unwrap(RawData.stim_data), 1, 1) = 7685
    /\ Unwrap(result).stim_data[1][1] = <<5, 1>>
    /\ ~Unwrap(result).amp_settle_data[1][1]
    /\ ~Unwrap(result).charge_recovery_data[1][1]

====
